---- MODULE Spec2Model ----
(***************************************************************************)
(* A model of the nats-types codec: the nom grammars of src/src/parser.rs  *)
(* and the Display / FromStr implementations of src/src/lib.rs.            *)
(*                                                                         *)
(* Wire text is a TLA+ string (a sequence of characters); a payload is a   *)
(* sequence of bytes (0..255).  A parser of parser.rs takes the remaining  *)
(* input and returns a record [ok, rest, val], the shape of nom's IResult  *)
(* over CompleteStr (no Incomplete outcome exists there).                  *)
(***************************************************************************)
EXTENDS Integers, Sequences, FiniteSets, TLC

VARIABLES stage, value, text, single, result, out, stdout

vars == <<stage, value, text, single, result, out, stdout>>

(***************************************************************************)
(* Strings, options and results.                                           *)
(***************************************************************************)
Ch(s, i) == SubSeq(s, i, i)

Drop(s, n) == SubSeq(s, n + 1, Len(s))

Take(s, n) == SubSeq(s, 1, n)

None == [some |-> FALSE]

Some(v) == [some |-> TRUE, v |-> v]

Ok(v) == [ok |-> TRUE, val |-> v]

Err(e) == [ok |-> FALSE, err |-> e]

\* A substring check in place of the prefix check.
StartsWithAnywhere(s, p) ==
  \E i \in 1..(Len(s) - Len(p) + 1) : SubSeq(s, i, i + Len(p) - 1) = p

\* str::starts_with: exact, case-sensitive comparison of the leading characters.
StartsWith(s, p) == Len(s) >= Len(p) /\ Take(s, Len(p)) = p

\* pat occurs in s at position i.
OccursAt(s, pat, i) == i + Len(pat) - 1 <= Len(s) /\ SubSeq(s, i, i + Len(pat) - 1) = pat

\* str::find: index of the first occurrence of pat in s, 0 when there is none.
Find(s, pat) ==
  IF \E i \in 1..Len(s) : OccursAt(s, pat, i)
  THEN CHOOSE i \in 1..Len(s) : OccursAt(s, pat, i) /\ \A j \in 1..(i - 1) : ~OccursAt(s, pat, j)
  ELSE 0

\* str::replace(pat, ""): every non-overlapping occurrence, left to right, is removed.
RECURSIVE Replace(_, _)
Replace(s, pat) ==
  LET i == Find(s, pat)
  IN  IF i = 0 THEN s ELSE Take(s, i - 1) \o Replace(Drop(s, i - 1 + Len(pat)), pat)

\* The characters str::trim removes (White_Space) that the wire alphabet has.
WhiteSpace == {" ", "\t", "\n", "\r", "\f"}

RECURSIVE TrimStart(_)
TrimStart(s) == IF s # "" /\ Ch(s, 1) \in WhiteSpace THEN TrimStart(Drop(s, 1)) ELSE s

RECURSIVE TrimEnd(_)
TrimEnd(s) ==
  IF s # "" /\ Ch(s, Len(s)) \in WhiteSpace THEN TrimEnd(Take(s, Len(s) - 1)) ELSE s

\* str::trim: leading and trailing white space removed.
Trim(s) == TrimEnd(TrimStart(s))

(***************************************************************************)
(* Decimal numbers: u64 / usize Display and str::parse::<u64>.             *)
(***************************************************************************)
Digits == "0123456789"

DigitVal(c) == Find(Digits, c) - 1

\* Display for an unsigned integer: decimal, no leading zeros.
RECURSIVE ToDec(_)
ToDec(n) == IF n < 10 THEN Ch(Digits, n + 1) ELSE ToDec(n \div 10) \o Ch(Digits, (n % 10) + 1)

RECURSIVE DecVal(_)
DecVal(d) == IF d = "" THEN 0 ELSE DecVal(Take(d, Len(d) - 1)) * 10 + DigitVal(Ch(d, Len(d)))

RECURSIVE StripZeros(_)
StripZeros(d) == IF Len(d) > 1 /\ Ch(d, 1) = "0" THEN StripZeros(Drop(d, 1)) ELSE d

U64Max == "18446744073709551615"

\* Lexicographic <= on digit strings of equal length.
RECURSIVE DigitsLeq(_, _)
DigitsLeq(a, b) ==
  IF a = "" THEN TRUE
  ELSE IF Ch(a, 1) = Ch(b, 1) THEN DigitsLeq(Drop(a, 1), Drop(b, 1))
  ELSE DigitVal(Ch(a, 1)) < DigitVal(Ch(b, 1))

\* A digit string denotes a value a u64 holds (2^64 - 1 at most).
FitsU64(d) ==
  LET z == StripZeros(d)
  IN  Len(z) < Len(U64Max) \/ (Len(z) = Len(U64Max) /\ DigitsLeq(z, U64Max))

(***************************************************************************)
(* parser.rs: character classes and nom primitives.                        *)
(***************************************************************************)
is_digit(chr) == chr \in {"1", "0", "2", "3", "4", "5", "6", "7", "8", "9"}

is_not_space(chr) == chr # " " /\ chr # "\r" /\ chr # "\n"

is_not_tick(chr) == chr # "'"

\* The characters of is_a!(" \t")
is_sep(chr) == chr \in {" ", "\t"}

\* The characters serde_json skips between tokens.
is_json_ws(chr) == chr \in {" ", "\t", "\n", "\r"}

InClass(chr, class) ==
  IF class = "digit" THEN is_digit(chr)
  ELSE IF class = "not_space" THEN is_not_space(chr)
  ELSE IF class = "not_tick" THEN is_not_tick(chr)
  ELSE IF class = "sep" THEN is_sep(chr)
  ELSE is_json_ws(chr)

\* The number of characters of class that i has from position pos on.
RECURSIVE SpanFrom(_, _, _)
SpanFrom(i, class, pos) ==
  IF pos <= Len(i) /\ InClass(Ch(i, pos), class) THEN 1 + SpanFrom(i, class, pos + 1) ELSE 0

\* Length of the longest prefix of i whose characters are all of class.
SpanLen(i, class) == SpanFrom(i, class, 1)

PFail(i) == [ok |-> FALSE, rest |-> i]

POk(rest, v) == [ok |-> TRUE, rest |-> rest, val |-> v]

\* take_while1_s!(class): one or more characters of class, an error on none.
take_while1_s(i, class) ==
  LET n == SpanLen(i, class) IN IF n = 0 THEN PFail(i) ELSE POk(Drop(i, n), Take(i, n))

\* tag_s!(t)
tag_s(i, t) == IF StartsWith(i, t) THEN POk(Drop(i, Len(t)), t) ELSE PFail(i)

\* is_a!(" \t"): one or more spaces or tabs.
is_a_sep(i) == take_while1_s(i, "sep")

\* char!(c)
char_p(i, c) == IF StartsWith(i, c) THEN POk(Drop(i, 1), c) ELSE PFail(i)

\* What follows the first CRLF, up to the next one.
Segment(after) ==
  LET j == Find(after, "\r\n") IN IF j = 0 THEN after ELSE Take(after, j - 1)

\* A framer that takes all that follows the first CRLF as the payload.
split_header_and_payload_rest(source) ==
  IF Find(source, "\r\n") = 0 THEN None
  ELSE Some([header  |-> Take(source, Find(source, "\r\n") - 1),
             payload |-> Drop(source, Find(source, "\r\n") + 1)])

\* split("\r\n"): segments 0 and 1 of the input, None if there is no CRLF.
split_header_and_payload(source) ==
  LET i == Find(source, "\r\n")
  IN  IF i = 0 THEN None
      ELSE Some([header |-> Take(source, i - 1), payload |-> Segment(Drop(source, i + 1))])

\* flat_map!(take_while1_s!(is_digit), parse_to!(u64))
parse_u64(i) ==
  LET d == take_while1_s(i, "digit")
  IN  IF ~d.ok THEN PFail(i)
      ELSE IF ~FitsU64(d.val) THEN PFail(i)
      ELSE POk(d.rest, DecVal(d.val))

parse_completestr(i) == take_while1_s(i, "not_space")

parse_alpha(i) == take_while1_s(i, "not_tick")

\* opt!(terminated!(parse_completestr, is_a!(" \t")))
opt_token(i) ==
  LET t == parse_completestr(i)
      n == IF t.ok THEN SpanLen(t.rest, "sep") ELSE 0
  IN  IF n = 0 THEN POk(i, None) ELSE POk(Drop(t.rest, n), Some(t.val))

\* opt!(is_a!(" \t"))
opt_sep(i) == LET p == is_a_sep(i) IN IF p.ok THEN POk(p.rest, Some(p.val)) ELSE POk(i, None)

\* opt!(parse_u64)
opt_u64(i) == LET p == parse_u64(i) IN IF p.ok THEN POk(p.rest, Some(p.val)) ELSE POk(i, None)

(***************************************************************************)
(* do_parse!: a run r is [ok, rest, val], val the fields captured so far.  *)
(* Each step applies one parser to r.rest, unless the run already failed,  *)
(* and captures its value under a name ("": not captured).                 *)
(***************************************************************************)
Start(i) == [ok |-> TRUE, rest |-> i, val |-> <<>>]

\* The parser of a step, applied to i; arg is the text of a tag or of a char.
Parser(kind, arg, i) ==
  IF kind = "tag_s" THEN tag_s(i, arg)
  ELSE IF kind = "char" THEN char_p(i, arg)
  ELSE IF kind = "is_a" THEN is_a_sep(i)
  ELSE IF kind = "opt_is_a" THEN opt_sep(i)
  ELSE IF kind = "parse_completestr" THEN parse_completestr(i)
  ELSE IF kind = "opt_completestr" THEN opt_token(i)
  ELSE IF kind = "parse_u64" THEN parse_u64(i)
  ELSE IF kind = "opt_u64" THEN opt_u64(i)
  ELSE parse_alpha(i)

\* The run after the parser result p, captured under name.
Step(r, p, name) ==
  IF ~r.ok THEN r
  ELSE IF ~p.ok THEN [r EXCEPT !.ok = FALSE]
  ELSE IF name = "" THEN [r EXCEPT !.rest = p.rest]
  ELSE [r EXCEPT !.rest = p.rest, !.val = (name :> p.val) @@ @]

\* One line of do_parse!: name: kind(arg) >>
Do(r, name, kind, arg) == Step(r, IF r.ok THEN Parser(kind, arg, r.rest) ELSE r, name)

\* The IResult of a run that started on i.
Done(i, r) == IF r.ok THEN POk(r.rest, r.val) ELSE PFail(i)

\* .ok().map(|h| h.1)
Header(r) == IF r.ok THEN Some(r.val) ELSE None

(***************************************************************************)
(* parser.rs: the header grammars.                                         *)
(***************************************************************************)
msg_header(i) ==
  Done(i, Do(Do(Do(Do(Do(Do(Do(Do(Start(i),
    "",            "tag_s", "MSG"),
    "",            "is_a", ""),
    "subject",     "parse_completestr", ""),
    "",            "is_a", ""),
    "sid",         "parse_u64", ""),
    "",            "is_a", ""),
    "reply_to",    "opt_completestr", ""),
    "message_len", "parse_u64", ""))

parse_msg_header(header) == Header(msg_header(header))

pub_header(i) ==
  Done(i, Do(Do(Do(Do(Do(Do(Start(i),
    "",            "tag_s", "PUB"),
    "",            "is_a", ""),
    "subject",     "parse_completestr", ""),
    "",            "is_a", ""),
    "reply_to",    "opt_completestr", ""),
    "message_len", "parse_u64", ""))

parse_pub_header(header) == Header(pub_header(header))

sub_header(i) ==
  Done(i, Do(Do(Do(Do(Do(Do(Start(i),
    "",            "tag_s", "SUB"),
    "",            "is_a", ""),
    "subject",     "parse_completestr", ""),
    "",            "is_a", ""),
    "queue_group", "opt_completestr", ""),
    "sid",         "parse_u64", ""))

parse_sub_header(header) == Header(sub_header(header))

unsub_header(i) ==
  Done(i, Do(Do(Do(Do(Do(Start(i),
    "",             "tag_s", "UNSUB"),
    "",             "is_a", ""),
    "sid",          "parse_u64", ""),
    "",             "opt_is_a", ""),
    "max_messages", "opt_u64", ""))

parse_unsub_header(header) == Header(unsub_header(header))

err_header(i) ==
  Done(i, Do(Do(Do(Start(i),
    "",        "tag_s", "-ERR '"),
    "message", "parse_alpha", ""),
    "",        "char", "'"))

parse_err_header(header) == Header(err_header(header))

(***************************************************************************)
(* Bytes and text: str::as_bytes and String::from_utf8.  The model's       *)
(* characters are ASCII, one byte each; the only bytes above 127 that the  *)
(* model draws are ones no UTF-8 encoding contains (0xFF).                 *)
(***************************************************************************)
\* ASCII 32..95 and 97..126 (the model's alphabet leaves out the grave accent, 96).
PrintableLow == " !\"#$%&'()*+,-./0123456789:;<=>?@ABCDEFGHIJKLMNOPQRSTUVWXYZ[\\]^_"

PrintableHigh == "abcdefghijklmnopqrstuvwxyz{|}~"

CharOf(b) ==
  IF b = 9 THEN "\t" ELSE IF b = 10 THEN "\n" ELSE IF b = 12 THEN "\f"
  ELSE IF b = 13 THEN "\r"
  ELSE IF b < 96 THEN Ch(PrintableLow, b - 31) ELSE Ch(PrintableHigh, b - 96)

ByteOf(c) ==
  IF c = "\t" THEN 9 ELSE IF c = "\n" THEN 10 ELSE IF c = "\f" THEN 12
  ELSE IF c = "\r" THEN 13
  ELSE IF Find(PrintableLow, c) # 0 THEN Find(PrintableLow, c) + 31
  ELSE Find(PrintableHigh, c) + 96

as_bytes(s) == [i \in 1..Len(s) |-> ByteOf(Ch(s, i))]

RECURSIVE BytesToStr(_)
BytesToStr(bytes) ==
  IF bytes = <<>> THEN "" ELSE CharOf(Head(bytes)) \o BytesToStr(Tail(bytes))

from_utf8(bytes) ==
  IF \A k \in 1..Len(bytes) : bytes[k] < 128 THEN Ok(BytesToStr(bytes)) ELSE Err("FromUtf8Error")

vec_to_str(bytes) ==
  LET s == from_utf8(bytes) IN IF s.ok THEN s.val ELSE "<<BAD PAYLOAD>>"

(***************************************************************************)
(* lib.rs: the payload-bearing and header-only message structs.  A struct  *)
(* is a record of its fields; Option<T> is None or Some(v).                *)
(***************************************************************************)
DeliveredMessage_fmt(m) ==
  IF ~m.reply_to.some
  THEN "MSG " \o m.subject \o " " \o ToDec(m.subscription_id) \o " "
         \o ToDec(m.payload_size) \o "\r\n" \o vec_to_str(m.payload) \o "\r\n"
  ELSE "MSG " \o m.subject \o " " \o ToDec(m.subscription_id) \o " " \o m.reply_to.v
         \o " " \o ToDec(m.payload_size) \o "\r\n" \o vec_to_str(m.payload) \o "\r\n"

DeliveredMessage_from_str(s) ==
  LET split == split_header_and_payload(s)
  IN  IF ~split.some
      THEN Err("Failed to parse message - possibly not a 2-line message")
      ELSE LET res == parse_msg_header(split.v.header)
           IN  IF res.some
               THEN Ok([subject         |-> res.v.subject,
                        subscription_id |-> res.v.sid,
                        reply_to        |-> res.v.reply_to,
                        payload_size    |-> res.v.message_len,
                        payload         |-> as_bytes(split.v.payload)])
               ELSE Err("Failed to parse delivered message")

SubscribeMessage_fmt(m) ==
  IF ~m.queue_group.some
  THEN "SUB " \o m.subject \o " " \o ToDec(m.subscription_id) \o "\r\n"
  ELSE "SUB " \o m.subject \o " " \o m.queue_group.v \o " "
         \o ToDec(m.subscription_id) \o "\r\n"

SubscribeMessage_from_str(s) ==
  LET res == parse_sub_header(s)
  IN  IF res.some
      THEN Ok([subscription_id |-> res.v.sid,
               queue_group     |-> res.v.queue_group,
               subject         |-> res.v.subject])
      ELSE Err("Failed to parse Subscribe message")

UnsubscribeMessage_fmt(m) ==
  IF ~m.max_messages.some
  THEN "UNSUB " \o ToDec(m.subscription_id) \o "\r\n"
  ELSE "UNSUB " \o ToDec(m.subscription_id) \o " " \o ToDec(m.max_messages.v) \o "\r\n"

UnsubscribeMessage_from_str(s) ==
  LET res == parse_unsub_header(s)
  IN  IF res.some
      THEN Ok([subscription_id |-> res.v.sid,
               max_messages    |-> res.v.max_messages])
      ELSE Err("Failed to parse Unsubscribe message")

PublishMessage_fmt(m) ==
  IF ~m.reply_to.some
  THEN "PUB " \o m.subject \o " " \o ToDec(m.payload_size) \o "\r\n"
         \o vec_to_str(m.payload) \o "\r\n"
  ELSE "PUB " \o m.subject \o " " \o m.reply_to.v \o " " \o ToDec(m.payload_size)
         \o "\r\n" \o vec_to_str(m.payload) \o "\r\n"

\* A parse that reconciles the declared length with the payload's byte count.
PublishMessage_from_str_reconciled(s) ==
  LET split == split_header_and_payload(s)
  IN  IF ~split.some
      THEN Err("Failed to parse Publish message - possibly not a 2-line message")
      ELSE LET res == parse_pub_header(split.v.header)
           IN  IF res.some
               THEN Ok([subject      |-> res.v.subject,
                        reply_to     |-> res.v.reply_to,
                        payload_size |-> Len(split.v.payload),
                        payload      |-> as_bytes(split.v.payload)])
               ELSE Err("Failed to parse Publish message")

PublishMessage_from_str(s) ==
  LET split == split_header_and_payload(s)
  IN  IF ~split.some
      THEN Err("Failed to parse Publish message - possibly not a 2-line message")
      ELSE LET res == parse_pub_header(split.v.header)
           IN  IF res.some
               THEN Ok([subject      |-> res.v.subject,
                        reply_to     |-> res.v.reply_to,
                        payload_size |-> res.v.message_len,
                        payload      |-> as_bytes(split.v.payload)])
               ELSE Err("Failed to parse Publish message")

(***************************************************************************)
(* serde_json, as lib.rs uses it: from_str::<T> and to_string over the two *)
(* derived structs.  A JSON text is first read into a value tree, the tree *)
(* is then decoded against the struct's field table.  A diagnostic is the  *)
(* decoder's message without its line/column suffix.  The model's texts    *)
(* hold no \b and no \u escape.                                            *)
(***************************************************************************)
JOk(pos, v) == [ok |-> TRUE, pos |-> pos, val |-> v]

JErr(d) == [ok |-> FALSE, diag |-> d]

\* The position of the first character at or after pos that is not white space.
SkipWs(s, pos) == pos + SpanFrom(s, "json_ws", pos)

\* The body of a string, from the character after the opening quote.
RECURSIVE JsonString(_, _, _)
JsonString(s, pos, acc) ==
  IF pos > Len(s) THEN JErr("EOF while parsing a string")
  ELSE LET c == Ch(s, pos)
       IN  IF c = "\"" THEN JOk(pos + 1, [t |-> "str", s |-> acc])
           ELSE IF c = "\\"
           THEN IF pos + 1 > Len(s) THEN JErr("EOF while parsing a string")
                ELSE LET e == Ch(s, pos + 1)
                     IN  IF e \in {"\"", "\\", "/"} THEN JsonString(s, pos + 2, acc \o e)
                         ELSE IF e = "n" THEN JsonString(s, pos + 2, acc \o "\n")
                         ELSE IF e = "r" THEN JsonString(s, pos + 2, acc \o "\r")
                         ELSE IF e = "t" THEN JsonString(s, pos + 2, acc \o "\t")
                         ELSE IF e = "f" THEN JsonString(s, pos + 2, acc \o "\f")
                         ELSE JErr("invalid escape")
           ELSE IF c \in {"\t", "\n", "\r", "\f"}
           THEN JErr("control character (\\u0000-\\u001F) found while parsing a string")
           ELSE JsonString(s, pos + 1, acc \o c)

\* The number read: n integer digits from p0, float if it has a fraction or an
\* exponent or does not fit a u64; the number ends before position pend.
NumberValue(s, neg, p0, n, float, pend) ==
  IF float \/ ~FitsU64(SubSeq(s, p0, p0 + n - 1)) THEN JOk(pend, [t |-> "float"])
  ELSE IF neg THEN JOk(pend, [t |-> "neg"])
  ELSE JOk(pend, [t |-> "num", n |-> DecVal(SubSeq(s, p0, p0 + n - 1))])

\* The exponent's en digits, from p3.
NumberExpDigits(s, neg, p0, n, p3, en) ==
  IF en = 0 THEN JErr("invalid number") ELSE NumberValue(s, neg, p0, n, TRUE, p3 + en)

\* An optional exponent at p2: e or E, an optional sign, digits.
NumberExp(s, neg, p0, n, frac, p2) ==
  IF p2 <= Len(s) /\ Ch(s, p2) \in {"e", "E"}
  THEN IF p2 + 1 <= Len(s) /\ Ch(s, p2 + 1) \in {"+", "-"}
       THEN NumberExpDigits(s, neg, p0, n, p2 + 2, SpanFrom(s, "digit", p2 + 2))
       ELSE NumberExpDigits(s, neg, p0, n, p2 + 1, SpanFrom(s, "digit", p2 + 1))
  ELSE NumberValue(s, neg, p0, n, frac, p2)

\* The fraction's fn digits, after the point at p1.
NumberFracDigits(s, neg, p0, n, p1, fn) ==
  IF fn = 0 THEN JErr("invalid number") ELSE NumberExp(s, neg, p0, n, TRUE, p1 + 1 + fn)

\* The n integer digits from p0, then an optional fraction.
NumberInt(s, neg, p0, n) ==
  IF n = 0 THEN JErr("invalid number")
  ELSE IF n > 1 /\ Ch(s, p0) = "0" THEN JErr("invalid number")
  ELSE IF p0 + n <= Len(s) /\ Ch(s, p0 + n) = "."
  THEN NumberFracDigits(s, neg, p0, n, p0 + n, SpanFrom(s, "digit", p0 + n + 1))
  ELSE NumberExp(s, neg, p0, n, FALSE, p0 + n)

\* A number, from its first character ('-' or a digit).
JsonNumber(s, pos) ==
  IF Ch(s, pos) = "-" THEN NumberInt(s, TRUE, pos + 1, SpanFrom(s, "digit", pos + 1))
  ELSE NumberInt(s, FALSE, pos, SpanFrom(s, "digit", pos))

JsonLiteral(s, pos, word, v) ==
  IF pos + Len(word) - 1 > Len(s) THEN JErr("EOF while parsing a value")
  ELSE IF SubSeq(s, pos, pos + Len(word) - 1) = word THEN JOk(pos + Len(word), v)
  ELSE JErr("expected ident")

RECURSIVE JsonValue(_, _), ValueAt(_, _), JsonMembers(_, _, _, _), MembersAt(_, _, _, _),
          MemberKey(_, _, _), MemberColon(_, _, _), MemberValue(_, _, _, _, _),
          JsonItems(_, _, _, _), ItemsAt(_, _, _, _), ItemValue(_, _, _, _)
\* A value, after any white space from pos0 on.
JsonValue(s, pos0) == ValueAt(s, SkipWs(s, pos0))

ValueAt(s, pos) ==
  IF pos > Len(s) THEN JErr("EOF while parsing a value")
  ELSE LET c == Ch(s, pos)
       IN  IF c = "{" THEN JsonMembers(s, pos + 1, <<>>, TRUE)
           ELSE IF c = "[" THEN JsonItems(s, pos + 1, <<>>, TRUE)
           ELSE IF c = "\"" THEN JsonString(s, pos + 1, "")
           ELSE IF c = "t" THEN JsonLiteral(s, pos, "true", [t |-> "bool", b |-> TRUE])
           ELSE IF c = "f" THEN JsonLiteral(s, pos, "false", [t |-> "bool", b |-> FALSE])
           ELSE IF c = "n" THEN JsonLiteral(s, pos, "null", [t |-> "null"])
           ELSE IF c = "-" \/ is_digit(c) THEN JsonNumber(s, pos)
           ELSE JErr("expected value")

\* The members of an object, from the character after '{' or after a member.
JsonMembers(s, pos0, acc, first) == MembersAt(s, SkipWs(s, pos0), acc, first)

MembersAt(s, pos, acc, first) ==
  IF pos > Len(s) THEN JErr("EOF while parsing an object")
  ELSE IF Ch(s, pos) = "}" THEN JOk(pos + 1, [t |-> "obj", members |-> acc])
  ELSE IF first THEN MemberKey(s, pos, acc)
  ELSE IF Ch(s, pos) # "," THEN JErr("expected ',' or '}'")
  ELSE MemberKey(s, SkipWs(s, pos + 1), acc)

MemberKey(s, kpos, acc) ==
  IF kpos > Len(s) THEN JErr("EOF while parsing a value")
  ELSE IF Ch(s, kpos) = "}" THEN JErr("trailing comma")
  ELSE IF Ch(s, kpos) # "\"" THEN JErr("key must be a string")
  ELSE MemberColon(s, JsonString(s, kpos + 1, ""), acc)

\* After the key k: a colon at cpos, then the member's value v.
MemberColon(s, k, acc) ==
  IF ~k.ok THEN k
  ELSE MemberValue(s, k, SkipWs(s, k.pos), JsonValue(s, SkipWs(s, k.pos) + 1), acc)

MemberValue(s, k, cpos, v, acc) ==
  IF cpos > Len(s) THEN JErr("EOF while parsing an object")
  ELSE IF Ch(s, cpos) # ":" THEN JErr("expected ':'")
  ELSE IF ~v.ok THEN v
  ELSE JsonMembers(s, v.pos, Append(acc, [k |-> k.val.s, v |-> v.val]), FALSE)

\* The items of an array, from the character after '[' or after an item.
JsonItems(s, pos0, acc, first) == ItemsAt(s, SkipWs(s, pos0), acc, first)

ItemsAt(s, pos, acc, first) ==
  IF pos > Len(s) THEN JErr("EOF while parsing a list")
  ELSE IF Ch(s, pos) = "]" THEN JOk(pos + 1, [t |-> "arr", items |-> acc])
  ELSE IF first THEN ItemValue(s, pos, JsonValue(s, pos), acc)
  ELSE IF Ch(s, pos) # "," THEN JErr("expected ',' or ']'")
  ELSE ItemValue(s, SkipWs(s, pos + 1), JsonValue(s, SkipWs(s, pos + 1)), acc)

\* The item v read at vpos.
ItemValue(s, vpos, v, acc) ==
  IF vpos <= Len(s) /\ Ch(s, vpos) = "]" THEN JErr("trailing comma")
  ELSE IF ~v.ok THEN v
  ELSE JsonItems(s, v.pos, Append(acc, v.val), FALSE)

\* Deserializer::end: after the value v, nothing but white space.
JsonEnd(s, v) ==
  IF ~v.ok THEN v
  ELSE IF SkipWs(s, v.pos) <= Len(s) THEN JErr("trailing characters")
  ELSE v

\* A whole text: one value, then the end.
JsonParse(s) == JsonEnd(s, JsonValue(s, 1))

(***************************************************************************)
(* The derived Serialize / Deserialize of the two structs: a field table   *)
(* in declaration order.  opt: Option<T> with skip_serializing_if =        *)
(* "Option::is_none"; dflt: #[serde(default)].                             *)
(***************************************************************************)
Field(n, ty, opt, dflt) == [name |-> n, ty |-> ty, opt |-> opt, dflt |-> dflt]

ConnectionInformation ==
  << Field("verbose", "bool", FALSE, FALSE),
     Field("pedantic", "bool", FALSE, FALSE),
     Field("tls_required", "bool", FALSE, FALSE),
     Field("auth_token", "string", TRUE, FALSE),
     Field("user", "string", TRUE, FALSE),
     Field("pass", "string", TRUE, FALSE),
     Field("lang", "string", FALSE, FALSE),
     Field("name", "string", FALSE, FALSE),
     Field("version", "string", FALSE, FALSE),
     Field("protocol", "u64", TRUE, FALSE),
     Field("sig", "string", TRUE, FALSE),
     Field("jwt", "string", TRUE, FALSE) >>

ServerInformation ==
  << Field("server_id", "string", FALSE, FALSE),
     Field("version", "string", FALSE, FALSE),
     Field("proto", "u64", TRUE, FALSE),
     Field("go", "string", FALSE, FALSE),
     Field("host", "string", FALSE, FALSE),
     Field("port", "u64", FALSE, FALSE),
     Field("auth_required", "bool", FALSE, TRUE),
     Field("tls_required", "bool", FALSE, TRUE),
     Field("max_payload", "u64", FALSE, TRUE),
     Field("client_id", "u64", TRUE, FALSE),
     Field("connect_urls", "vec_string", TRUE, FALSE),
     Field("nonce", "string", TRUE, FALSE) >>

FieldNames(schema) == {schema[i].name : i \in 1..Len(schema)}

FieldOf(schema, n) == schema[CHOOSE i \in 1..Len(schema) : schema[i].name = n]

\* Default::default() of a field's type.
DefaultOf(ty) == IF ty = "bool" THEN FALSE ELSE IF ty = "u64" THEN 0 ELSE IF ty = "string" THEN "" ELSE <<>>

\* A JSON value decoded as the plain type ty.
DecodePlain(v, ty) ==
  IF ty = "bool"
  THEN IF v.t = "bool" THEN Ok(v.b) ELSE Err("invalid type, expected a boolean")
  ELSE IF ty = "string"
  THEN IF v.t = "str" THEN Ok(v.s) ELSE Err("invalid type, expected a string")
  ELSE IF ty = "u64"
  THEN IF v.t = "num" THEN Ok(v.n)
       ELSE IF v.t = "neg" THEN Err("invalid value, expected u64")
       ELSE Err("invalid type, expected u64")
  ELSE IF v.t # "arr" THEN Err("invalid type, expected a sequence")
       ELSE IF \E k \in 1..Len(v.items) : v.items[k].t # "str"
       THEN Err("invalid type, expected a string")
       ELSE Ok([k \in 1..Len(v.items) |-> v.items[k].s])

\* A JSON value decoded as the type of field f: null is None for an Option.
DecodeField(v, f) ==
  IF f.opt
  THEN IF v.t = "null" THEN Ok(None)
       ELSE LET r == DecodePlain(v, f.ty) IN IF r.ok THEN Ok(Some(r.val)) ELSE r
  ELSE DecodePlain(v, f.ty)

\* visit_map: members in input order; an unknown key is ignored, a known key
\* seen twice is an error.  seen maps the names decoded so far to their values.
RECURSIVE VisitMap(_, _, _)
VisitMap(members, schema, seen) ==
  IF members = <<>>
  THEN LET missing == {n \in FieldNames(schema) \ DOMAIN seen :
                         ~FieldOf(schema, n).opt /\ ~FieldOf(schema, n).dflt}
       IN  IF missing # {} THEN Err("missing field")
           ELSE Ok([n \in FieldNames(schema) |->
                      IF n \in DOMAIN seen THEN seen[n]
                      ELSE IF FieldOf(schema, n).opt THEN None
                      ELSE DefaultOf(FieldOf(schema, n).ty)])
  ELSE LET m == Head(members)
       IN  IF m.k \notin FieldNames(schema) THEN VisitMap(Tail(members), schema, seen)
           ELSE IF m.k \in DOMAIN seen THEN Err("duplicate field")
           ELSE LET r == DecodeField(m.v, FieldOf(schema, m.k))
                IN  IF ~r.ok THEN r
                    ELSE VisitMap(Tail(members), schema, (m.k :> r.val) @@ seen)

\* visit_seq: the fields by position; a missing element is an error unless the
\* field has a default, a surplus element is an error.
VisitSeq(items, schema) ==
  LET r(i) == DecodeField(items[i], schema[i])
      n    == IF Len(items) < Len(schema) THEN Len(items) ELSE Len(schema)
  IN  IF \E i \in 1..n : ~r(i).ok
      THEN r(CHOOSE i \in 1..n : ~r(i).ok /\ \A j \in 1..(i - 1) : r(j).ok)
      ELSE IF \E i \in (n + 1)..Len(schema) : ~schema[i].dflt THEN Err("invalid length")
      ELSE IF Len(items) > Len(schema) THEN Err("trailing characters")
      ELSE Ok([nm \in FieldNames(schema) |->
                 LET i == CHOOSE k \in 1..Len(schema) : schema[k].name = nm
                 IN  IF i <= n THEN r(i).val ELSE DefaultOf(schema[i].ty)])

\* The value tree v decoded as the struct of schema.
DecodeStruct(v, schema) ==
  IF ~v.ok THEN Err(v.diag)
  ELSE IF v.val.t = "obj" THEN VisitMap(v.val.members, schema, <<>>)
  ELSE IF v.val.t = "arr" THEN VisitSeq(v.val.items, schema)
  ELSE Err("invalid type, expected struct")

\* serde_json::from_str::<T>: Ok(struct) or Err(diagnostic).
serde_json_from_str(s, schema) == DecodeStruct(JsonParse(s), schema)

\* A string as JSON writes it.
RECURSIVE JsonEscape(_)
JsonEscape(s) ==
  IF s = "" THEN ""
  ELSE LET c == Ch(s, 1)
       IN  (IF c = "\"" THEN "\\\"" ELSE IF c = "\\" THEN "\\\\"
            ELSE IF c = "\n" THEN "\\n" ELSE IF c = "\r" THEN "\\r"
            ELSE IF c = "\t" THEN "\\t" ELSE IF c = "\f" THEN "\\f" ELSE c)
           \o JsonEscape(Drop(s, 1))

JsonQuote(s) == "\"" \o JsonEscape(s) \o "\""

RECURSIVE JoinComma(_)
JoinComma(parts) ==
  IF parts = <<>> THEN ""
  ELSE IF Len(parts) = 1 THEN parts[1]
  ELSE parts[1] \o "," \o JoinComma(Tail(parts))

SerializePlain(v, ty) ==
  IF ty = "bool" THEN (IF v THEN "true" ELSE "false")
  ELSE IF ty = "string" THEN JsonQuote(v)
  ELSE IF ty = "u64" THEN ToDec(v)
  ELSE "[" \o JoinComma([k \in 1..Len(v) |-> JsonQuote(v[k])]) \o "]"

\* One member, "name":value; an absent Option would be written as null.
SerializeField(info, f) ==
  JsonQuote(f.name) \o ":" \o
    (IF f.opt THEN (IF info[f.name].some THEN SerializePlain(info[f.name].v, f.ty) ELSE "null")
     ELSE SerializePlain(info[f.name], f.ty))

\* A struct without the skip attribute: an absent Option is written as null.
SkippedNever(info, f) == FALSE

\* skip_serializing_if = "Option::is_none"
Skipped(info, f) == f.opt /\ ~info[f.name].some

RECURSIVE SerializeFields(_, _)
SerializeFields(info, schema) ==
  IF schema = <<>> THEN <<>>
  ELSE (IF Skipped(info, Head(schema)) THEN <<>> ELSE <<SerializeField(info, Head(schema))>>)
       \o SerializeFields(info, Tail(schema))

\* serde_json::to_string: never an error for these two structs.
serde_json_to_string(info, schema) ==
  Ok("{" \o JoinComma(SerializeFields(info, schema)) \o "}")


(***************************************************************************)
(* lib.rs: CONNECT and INFO, the structured-payload messages.              *)
(***************************************************************************)
ConnectionInformation_fmt(ci) ==
  LET o == serde_json_to_string(ci, ConnectionInformation)
  IN  IF o.ok THEN "CONNECT " \o o.val \o "\r\n"
      ELSE "<<BAD CONNECT INFO - CAN'T SERIALIZE>>: " \o o.err

\* What from_str hands to the decoder: s.replace("CONNECT ", "").trim()
ConnectionInformation_body(s) == Trim(Replace(s, "CONNECT "))

\* println!("{}", s) of from_str: the line written to standard output.
ConnectionInformation_println(s) == Replace(s, "CONNECT ") \o "\n"

ConnectionInformation_from_str(s) ==
  LET r == serde_json_from_str(ConnectionInformation_body(s), ConnectionInformation)
  IN  IF r.ok THEN Ok(r.val)
      ELSE Err("Failed to parse connection info JSON: " \o r.err)

ServerInformation_fmt(si) ==
  LET o == serde_json_to_string(si, ServerInformation)
  IN  IF o.ok THEN "INFO " \o o.val \o "\r\n"
      ELSE "<<BAD SERVERINFO - CAN'T SERIALIZE>>: " \o o.err

\* What from_str hands to the decoder: s.replace("INFO ", "").trim()
ServerInformation_body(s) == Trim(Replace(s, "INFO "))

ServerInformation_from_str(s) ==
  LET r == serde_json_from_str(ServerInformation_body(s), ServerInformation)
  IN  IF r.ok THEN Ok(r.val)
      ELSE Err("Failed to parse server info JSON")

(***************************************************************************)
(* lib.rs: enum ProtocolMessage.  A variant is its kind and, under a field *)
(* of its own, what it carries; Ping, Pong and Ok carry no data.           *)
(***************************************************************************)
Unsubscribe(m) == [kind |-> "Unsubscribe", unsubscribe |-> m]

Publish(m) == [kind |-> "Publish", publish |-> m]

Message(m) == [kind |-> "Message", message |-> m]

Subscribe(m) == [kind |-> "Subscribe", subscribe |-> m]

Ping == [kind |-> "Ping"]

Pong == [kind |-> "Pong"]

OkMsg == [kind |-> "Ok"]

Error(s) == [kind |-> "Error", error |-> s]

Info(si) == [kind |-> "Info", info |-> si]

Connect(ci) == [kind |-> "Connect", connect |-> ci]

ProtocolMessage_fmt(self) ==
  IF self.kind = "Unsubscribe" THEN UnsubscribeMessage_fmt(self.unsubscribe)
  ELSE IF self.kind = "Subscribe" THEN SubscribeMessage_fmt(self.subscribe)
  ELSE IF self.kind = "Publish" THEN PublishMessage_fmt(self.publish)
  ELSE IF self.kind = "Message" THEN DeliveredMessage_fmt(self.message)
  ELSE IF self.kind = "Ping" THEN "PING\r\n"
  ELSE IF self.kind = "Pong" THEN "PONG\r\n"
  ELSE IF self.kind = "Ok" THEN "+OK\r\n"
  ELSE IF self.kind = "Error" THEN "-ERR '" \o self.error \o "'"
  ELSE IF self.kind = "Info" THEN ServerInformation_fmt(self.info)
  ELSE ConnectionInformation_fmt(self.connect)

\* match X::from_str(s) { Ok(m) => Ok(ProtocolMessage::K(m)), Err(e) => Err(e) }
Wrap(kind, r) ==
  IF ~r.ok THEN r
  ELSE IF kind = "Unsubscribe" THEN Ok(Unsubscribe(r.val))
  ELSE IF kind = "Publish" THEN Ok(Publish(r.val))
  ELSE IF kind = "Message" THEN Ok(Message(r.val))
  ELSE IF kind = "Subscribe" THEN Ok(Subscribe(r.val))
  ELSE IF kind = "Info" THEN Ok(Info(r.val))
  ELSE Ok(Connect(r.val))

ProtocolMessage_from_str(s) ==
  IF StartsWith(s, "UNSUB") THEN Wrap("Unsubscribe", UnsubscribeMessage_from_str(s))
  ELSE IF StartsWith(s, "PUB") THEN Wrap("Publish", PublishMessage_from_str(s))
  ELSE IF StartsWith(s, "MSG") THEN Wrap("Message", DeliveredMessage_from_str(s))
  ELSE IF StartsWith(s, "SUB") THEN Wrap("Subscribe", SubscribeMessage_from_str(s))
  ELSE IF StartsWith(s, "PING") THEN Ok(Ping)
  ELSE IF StartsWith(s, "PONG") THEN Ok(Pong)
  ELSE IF StartsWith(s, "+OK") THEN Ok(OkMsg)
  ELSE IF StartsWith(s, "-ERR")
  THEN LET h == parse_err_header(s)
       IN  IF h.some THEN Ok(Error(h.v.message))
           ELSE Err("Failed to parse protocol message of type ERR")
  ELSE IF StartsWith(s, "INFO") THEN Wrap("Info", ServerInformation_from_str(s))
  ELSE IF StartsWith(s, "CONNECT") THEN Wrap("Connect", ConnectionInformation_from_str(s))
  ELSE Err("Failed to parse protocol message - unknown message type?")

\* The lines a call of ProtocolMessage::from_str writes to standard output.
ProtocolMessage_from_str_stdout(s) ==
  IF /\ StartsWith(s, "CONNECT")
     /\ \A k \in {"UNSUB", "PUB", "MSG", "SUB", "PING", "PONG", "+OK", "-ERR", "INFO"} :
          ~StartsWith(s, k)
  THEN <<ConnectionInformation_println(s)>>
  ELSE <<>>

(***************************************************************************)
(* The values a caller constructs and the texts a transport delivers.      *)
(***************************************************************************)
\* Longest run of separator characters between two fields of a header line.
MaxRun == 2

RECURSIVE RunsOfLen(_)
RunsOfLen(n) ==
  IF n = 0 THEN {""} ELSE {r \o c : r \in RunsOfLen(n - 1), c \in {" ", "\t"}}

Runs == UNION {RunsOfLen(n) : n \in 1..MaxRun}

\* fields[1] seps[1] fields[2] ... seps[n-1] fields[n]
RECURSIVE Join(_, _)
Join(fields, seps) ==
  IF Len(fields) = 1 THEN fields[1]
  ELSE fields[1] \o seps[1] \o Join(Tail(fields), Tail(seps))

HeaderFields ==
  { <<"SUB", "FOO", "99">>, <<"SUB", "FOO", "group.test", "99">>,
    <<"PUB", "FOO", "11">>, <<"PUB", "FOO", "INBOX.1", "11">>,
    <<"MSG", "FOO.BAR", "9", "11">>, <<"MSG", "FOO.BAR", "9", "INBOX.34", "11">>,
    <<"UNSUB", "21">>, <<"UNSUB", "21", "40">> }

TailOf(f) == IF f[1] \in {"PUB", "MSG"} THEN "\r\nHello World\r\n" ELSE "\r\n"

\* The separator choices for the fields f: a run for each of the first three
\* gaps, a single space or tab for a later one.
Separators(f) ==
  {seps \in [1..(Len(f) - 1) -> Runs] : \A k \in DOMAIN seps : k > 3 => Len(seps[k]) = 1}

\* The header line of fields f with separators seps, and what follows it.
HeaderText(f, seps) == Join(f, seps) \o TailOf(f)

\* Its single-space form.
SingleText(f) == Join(f, [k \in 1..(Len(f) - 1) |-> " "]) \o TailOf(f)

Keywords == {"UNSUB", "PUB", "MSG", "SUB", "PING", "PONG", "+OK", "-ERR", "INFO", "CONNECT"}

Words ==
  Keywords \cup {"unsub", "pub", "msg", "sub", "ping", "pong", "+ok", "-err", "info", "connect",
                 "Sub", "Ping", "UNSU", "PIN", "ERR", "OK", "HELLO", ""}

\* A word, after some lead, before some rest: the dispatcher's cases.
DispatchInputs ==
  { lead \o w \o rest :
      lead \in {"", " ", "\t", "x", "\r\n"},
      w    \in Words,
      rest \in {"", "\r\n", " FOO 1\r\n", " FOO 1 2\r\nhi\r\n", " 1 2", " 'x'", " {}", "X"} }

NumTokens == {"0", "12", "007", "12x", "x12", "abc", "1.5", "-1", "18446744073709551616"}

\* Header lines with each of NumTokens in each numeric position.
NumericInputs ==
  UNION { { "PUB FOO " \o t \o "\r\nhi\r\n", "PUB FOO r " \o t \o "\r\nhi\r\n",
            "SUB FOO " \o t \o "\r\n", "SUB FOO q " \o t \o "\r\n",
            "UNSUB " \o t \o "\r\n", "UNSUB 21 " \o t, "UNSUB 21 " \o t \o "\r\n",
            "MSG FOO " \o t \o " 5\r\nhi\r\n", "MSG FOO 1 " \o t \o "\r\nhi\r\n",
            "MSG FOO 1 r " \o t \o "\r\nhi\r\n" } : t \in NumTokens }

\* PUB / MSG header lines, well-formed and not, before every shape of what follows.
FrameInputs ==
  { h \o rest :
      h    \in {"PUB FOO 5", "PUB FOO r 0", "PUB FOO 3", "MSG FOO 1 5", "MSG a.b 1 r 11",
                "PUB FOO", "MSG FOO 5", "PUB"},
      rest \in {"", "\r\n", "\r\nhello", "\r\nhello\r\n", "\r\n\r\n", "\r\nhe\r\nllo\r\n",
                "\r", "\n", "\rhello\n", "\n\rhello", "\r\nhello\r\nmore\r\nrest"} }

ErrInputs ==
  { "-ERR 'Attempted To Connect To Route Port'", "-ERR 'x'\r\n", "-ERR ''", "-ERR ''\r\n",
    "-ERR 'a'b'", "-ERR x", "-ERR 'x", "-ERR  'x'", "-ERR\t'x'", "-ERR'x'", "-ERR" }

ExtraInputs ==
  { "SUB FOO q 99 extra\r\n", "PUB FOO r 11 22\r\nhi\r\n", "UNSUB 1 2 3", "PINGX", "PING 1",
    "SUB FOO 99 \r\n", " SUB FOO 99\r\n", "SUB FOO 7 9\r\n", "PUB FOO 7 9\r\nhi\r\n",
    "MSG FOO 1 7 9\r\nhi\r\n", "UNSUB 21 40", "UNSUB 21", "SUB F\tO 1\r\n" }

\* The member text of each CONNECT key, as a client writes it.
ConnectMember ==
  [ verbose |-> "\"verbose\":false", pedantic |-> "\"pedantic\":true",
    tls_required |-> "\"tls_required\":false", auth_token |-> "\"auth_token\":\"tok\"",
    user |-> "\"user\":\"u\"", pass |-> "\"pass\":\"p w\"", lang |-> "\"lang\":\"go\"",
    name |-> "\"name\":\"testing\"", version |-> "\"version\":\"1.2.2\"",
    protocol |-> "\"protocol\":1", sig |-> "\"sig\":\"s\"", jwt |-> "\"jwt\":\"j\"" ]

\* The member text of each INFO key, as a server writes it.
InfoMember ==
  [ server_id |-> "\"server_id\":\"1ec4\"", version |-> "\"version\":\"0.6.6\"",
    proto |-> "\"proto\":1", go |-> "\"go\":\"go1.4.2\"", host |-> "\"host\":\"0.0.0.0\"",
    port |-> "\"port\":4222", auth_required |-> "\"auth_required\":true",
    tls_required |-> "\"tls_required\":false", max_payload |-> "\"max_payload\":1048576",
    client_id |-> "\"client_id\":1337", connect_urls |-> "\"connect_urls\":[\"a:1\",\"b:2\"]",
    nonce |-> "\"nonce\":\"x\"" ]

RECURSIVE MembersOf(_, _, _)
MembersOf(schema, member, keys) ==
  IF schema = <<>> THEN <<>>
  ELSE (IF Head(schema).name \in keys THEN <<member[Head(schema).name]>> ELSE <<>>)
       \o MembersOf(Tail(schema), member, keys)

\* A JSON object holding the members of the given keys, in declaration order.
BodyOf(schema, member, keys) == "{" \o JoinComma(MembersOf(schema, member, keys)) \o "}"

OptionalKeys(schema) == {n \in FieldNames(schema) : FieldOf(schema, n).opt}

DefaultedKeys(schema) == {n \in FieldNames(schema) : FieldOf(schema, n).dflt}

RequiredKeys(schema) == FieldNames(schema) \ (OptionalKeys(schema) \cup DefaultedKeys(schema))

\* CONNECT with every subset of the optional keys left out.
ConnectInputs ==
  { kw \o BodyOf(ConnectionInformation, ConnectMember,
                 RequiredKeys(ConnectionInformation) \cup S) \o tail :
      kw \in {"CONNECT ", "CONNECT\t"},
      S \in SUBSET OptionalKeys(ConnectionInformation),
      tail \in {"", "\r\n"} }

\* INFO with every subset of the optional and the defaulted keys left out.
InfoInputs ==
  { kw \o BodyOf(ServerInformation, InfoMember, RequiredKeys(ServerInformation) \cup S) \o tail :
      kw \in {"INFO ", "INFO\t"},
      S \in SUBSET (OptionalKeys(ServerInformation) \cup DefaultedKeys(ServerInformation)),
      tail \in {"", "\r\n"} }

ConnectAll == FieldNames(ConnectionInformation)

InfoAll == FieldNames(ServerInformation)

\* CONNECT bodies that are malformed, mistyped, or otherwise out of the ordinary.
OddConnectBodies ==
  { "", "{", "{}", "[]", "true", "{\"verbose\":tru",
    BodyOf(ConnectionInformation, ConnectMember, ConnectAll) \o " x",
    BodyOf(ConnectionInformation, [ConnectMember EXCEPT !.verbose = "\"verbose\":\"yes\""], ConnectAll),
    BodyOf(ConnectionInformation, [ConnectMember EXCEPT !.protocol = "\"protocol\":-1"], ConnectAll),
    BodyOf(ConnectionInformation, [ConnectMember EXCEPT !.protocol = "\"protocol\":1.5"], ConnectAll),
    BodyOf(ConnectionInformation, [ConnectMember EXCEPT !.user = "\"user\":null"], ConnectAll),
    BodyOf(ConnectionInformation, [ConnectMember EXCEPT !.user = "\"user\":7"], ConnectAll),
    BodyOf(ConnectionInformation, [ConnectMember EXCEPT !.lang = "\"lang\":\"go\",\"lang\":\"go\""], ConnectAll),
    BodyOf(ConnectionInformation, [ConnectMember EXCEPT !.lang = "\"lang\":\"go\",\"extra\":{\"a\":[1,2]}"], ConnectAll),
    BodyOf(ConnectionInformation, [ConnectMember EXCEPT !.name = "\"name\":\"CONNECT x\""], ConnectAll),
    BodyOf(ConnectionInformation, [ConnectMember EXCEPT !.name = "\"name\":\"a\\\"b\""], ConnectAll),
    BodyOf(ConnectionInformation, [ConnectMember EXCEPT !.name = "\"name\" :\t\"spaced\" "], ConnectAll) }

\* INFO bodies that are malformed, mistyped, or otherwise out of the ordinary.
OddInfoBodies ==
  { "", "{", "{}", "[]", "null", "{\"port\":42",
    BodyOf(ServerInformation, InfoMember, InfoAll) \o "}",
    BodyOf(ServerInformation, [InfoMember EXCEPT !.port = "\"port\":\"4222\""], InfoAll),
    BodyOf(ServerInformation, [InfoMember EXCEPT !.connect_urls = "\"connect_urls\":[1]"], InfoAll),
    BodyOf(ServerInformation, [InfoMember EXCEPT !.connect_urls = "\"connect_urls\":[]"], InfoAll),
    BodyOf(ServerInformation, [InfoMember EXCEPT !.nonce = "\"nonce\":null"], InfoAll),
    BodyOf(ServerInformation, [InfoMember EXCEPT !.host = "\"host\":\"INFO h\""], InfoAll),
    BodyOf(ServerInformation, [InfoMember EXCEPT !.auth_required = "\"auth_required\":1"], InfoAll) }

OddInputs ==
  { kw \o b \o tail : kw \in {"CONNECT ", "CONNECT\t", "CONNECT  "}, b \in OddConnectBodies,
                      tail \in {"", "\r\n"} }
  \cup
  { kw \o b \o tail : kw \in {"INFO ", "INFO\t", "INFO  "}, b \in OddInfoBodies,
                      tail \in {"", "\r\n"} }

\* The texts the transport may deliver besides the header lines of HeaderFields.
Inputs ==
  DispatchInputs \cup NumericInputs \cup FrameInputs \cup ErrInputs \cup ExtraInputs
    \cup ConnectInputs \cup InfoInputs \cup OddInputs

\* Field values a caller may give: String and Vec<u8> fields take any content.
Subjects == {"FOO", "a.b", "", "a b"}

OptTokens == {None, Some("INBOX.1"), Some("7")}

Numbers == {0, 7, 40}

Payloads ==
  { <<>>, as_bytes("Hello World"), as_bytes("a\r\nb"), as_bytes("a b\t"), <<255>>, <<72, 255, 105>> }

ErrorTexts == {"", "x", "Unknown Protocol Operation", "it's"}

ConnectValues ==
  { [verbose |-> vb, pedantic |-> FALSE, tls_required |-> tls, auth_token |-> at,
     user |-> us, pass |-> pw, lang |-> "rust", name |-> nm, version |-> "1.0.0",
     protocol |-> pr, sig |-> sg, jwt |-> jw] :
      vb \in BOOLEAN, tls \in BOOLEAN,
      at \in {None, Some("tok")}, us \in {None, Some("u")}, pw \in {None, Some("p w")},
      nm \in {"encabulators", "CONNECT x", "q\"t\\"},
      pr \in {None, Some(1)}, sg \in {None, Some("s")}, jw \in {None, Some("INFO j")} }

InfoValues ==
  { [server_id |-> "test", version |-> "1.3.0", proto |-> pt, go |-> "go1.10.3", host |-> hs,
     port |-> 4222, auth_required |-> au, tls_required |-> FALSE, max_payload |-> mp,
     client_id |-> ci, connect_urls |-> cu, nonce |-> nc] :
      pt \in {None, Some(1)}, hs \in {"0.0.0.0", "INFO h"}, au \in BOOLEAN,
      mp \in {0, 1048576}, ci \in {None, Some(1337)},
      cu \in {None, Some(<<>>), Some(<<"a:1", "b:2">>)}, nc \in {None, Some("x")} }

\* Every ProtocolMessage value a caller may construct.
Messages ==
  { Unsubscribe([subscription_id |-> n, max_messages |-> mx]) :
      n \in Numbers, mx \in {None} \cup {Some(k) : k \in Numbers} }
  \cup
  { Subscribe([subject |-> sj, queue_group |-> q, subscription_id |-> n]) :
      sj \in Subjects, q \in OptTokens, n \in Numbers }
  \cup
  { Publish([subject |-> sj, reply_to |-> r, payload_size |-> n, payload |-> p]) :
      sj \in Subjects, r \in OptTokens, n \in {0, 11}, p \in Payloads }
  \cup
  { Message([subject |-> sj, subscription_id |-> n, reply_to |-> r,
                        payload_size |-> 11, payload |-> p]) :
      sj \in Subjects, n \in {0, 9}, r \in OptTokens, p \in Payloads }
  \cup { Ping, Pong, OkMsg }
  \cup { Error(e) : e \in ErrorTexts }
  \cup { Info(si) : si \in InfoValues }
  \cup { Connect(ci) : ci \in ConnectValues }

(***************************************************************************)
(* The codec in use.  A caller either constructs a message, renders it and *)
(* parses the rendered text back, or is handed a text by the transport,    *)
(* parses it and renders what the parse returned.                          *)
(*   stage   where the caller is                                           *)
(*   value   the constructed message (NoValue for a delivered text)        *)
(*   text    the wire text at hand;  single: its single-space form         *)
(*   result  what ProtocolMessage::from_str(text) returned                 *)
(*   out     what rendering result's message gave                          *)
(*   stdout  the lines written to standard output so far                   *)
(***************************************************************************)
NoValue == [kind |-> "none"]

NoResult == [pending |-> TRUE]

Init ==
  /\ result = NoResult
  /\ out = ""
  /\ stdout = <<>>
  /\ \/ /\ stage = "constructed"
        /\ value \in Messages
        /\ text = ""
        /\ single = ""
     \/ /\ stage = "received"
        /\ value = NoValue
        /\ \/ \E f \in HeaderFields : \E seps \in Separators(f) :
                 text = HeaderText(f, seps) /\ single = SingleText(f)
           \/ \E t \in Inputs : text = t /\ single = t

\* format!("{}", value)
Render ==
  /\ stage = "constructed"
  /\ text' = ProtocolMessage_fmt(value)
  /\ single' = text'
  /\ stage' = "rendered"
  /\ UNCHANGED <<value, result, out, stdout>>

\* ProtocolMessage::from_str(&text)
Parse ==
  /\ stage \in {"rendered", "received"}
  /\ result' = ProtocolMessage_from_str(text)
  /\ stdout' = stdout \o ProtocolMessage_from_str_stdout(text)
  /\ stage' = "parsed"
  /\ UNCHANGED <<value, text, single, out>>

\* format!("{}", m) of the message the parse returned
RenderParsed ==
  /\ stage = "parsed"
  /\ result.ok
  /\ out' = ProtocolMessage_fmt(result.val)
  /\ stage' = "rerendered"
  /\ UNCHANGED <<value, text, single, result, stdout>>

Next == Render \/ Parse \/ RenderParsed

Spec == Init /\ [][Next]_vars

(***************************************************************************)
(* Reference notions the properties are stated with: the header line, its  *)
(* tokens (maximal runs of characters other than space and tab), and the   *)
(* CRLF-delimited segments of a text.                                      *)
(***************************************************************************)
CRLF == "\r\n"

\* p occurs in t.
Contains(t, p) ==
  \E i \in 1..(Len(t) - Len(p) + 1) : \A k \in 1..Len(p) : Ch(t, i + k - 1) = Ch(p, k)

\* t ends with p.
EndsWith(t, p) ==
  Len(t) >= Len(p) /\ \A k \in 1..Len(p) : Ch(t, Len(t) - Len(p) + k) = Ch(p, k)

\* t begins with the characters of k, compared one by one.
LeadingIs(t, k) == Len(t) >= Len(k) /\ \A i \in 1..Len(k) : Ch(t, i) = Ch(k, i)

\* The positions at which a CRLF starts in t.
CrlfAt(t) == {i \in 1..(Len(t) - 1) : Ch(t, i) = "\r" /\ Ch(t, i + 1) = "\n"}

Least(S) == CHOOSE i \in S : \A j \in S : i <= j

\* The text before the first CRLF (the whole text if it has none).
HeaderLine(t) == IF CrlfAt(t) = {} THEN t ELSE SubSeq(t, 1, Least(CrlfAt(t)) - 1)

\* The text between the first CRLF and the next one (or the end).
SecondSegment(t) ==
  LET a     == Least(CrlfAt(t)) + 2
      later == {i \in CrlfAt(t) : i >= a}
  IN  SubSeq(t, a, IF later = {} THEN Len(t) ELSE Least(later) - 1)

is_token_char(chr) == chr # " " /\ chr # "\t"

\* The length of the run of token characters (tok) or of blanks that line starts with.
RunLength(line, tok) ==
  CHOOSE n \in 0..Len(line) :
    /\ \A k \in 1..n : is_token_char(Ch(line, k)) = tok
    /\ n < Len(line) => is_token_char(Ch(line, n + 1)) # tok

\* The blank-separated tokens of a line, in order.
RECURSIVE Tokens(_)
Tokens(line) ==
  LET rest == Drop(line, RunLength(line, FALSE))
      n    == RunLength(rest, TRUE)
  IN  IF rest = "" THEN <<>> ELSE <<Take(rest, n)>> \o Tokens(Drop(rest, n))

AllDigits(tok) == tok # "" /\ \A i \in 1..Len(tok) : \E d \in 1..10 : Ch(tok, i) = Ch("0123456789", d)

\* The numeric positions of a header line, by its keyword and token count.
NumericPositions(toks) ==
  IF toks = <<>> THEN {}
  ELSE IF toks[1] = "PUB" /\ Len(toks) \in {3, 4} THEN {Len(toks)}
  ELSE IF toks[1] = "SUB" /\ Len(toks) \in {3, 4} THEN {Len(toks)}
  ELSE IF toks[1] = "UNSUB" /\ Len(toks) \in {2, 3} THEN 2..Len(toks)
  ELSE IF toks[1] = "MSG" /\ Len(toks) \in {4, 5} THEN {3, Len(toks)}
  ELSE {}

UnknownKind == "Failed to parse protocol message - unknown message type?"

FramingErrors ==
  { "Failed to parse Publish message - possibly not a 2-line message",
    "Failed to parse message - possibly not a 2-line message" }

GrammarErrors ==
  { "Failed to parse Unsubscribe message", "Failed to parse Publish message",
    "Failed to parse delivered message", "Failed to parse Subscribe message",
    "Failed to parse protocol message of type ERR" }

\* The message kind of each keyword and the errors its grammar can return.
KindOf ==
  [k \in Keywords |->
     IF k = "UNSUB" THEN "Unsubscribe" ELSE IF k = "PUB" THEN "Publish"
     ELSE IF k = "MSG" THEN "Message" ELSE IF k = "SUB" THEN "Subscribe"
     ELSE IF k = "PING" THEN "Ping" ELSE IF k = "PONG" THEN "Pong"
     ELSE IF k = "+OK" THEN "Ok" ELSE IF k = "-ERR" THEN "Error"
     ELSE IF k = "INFO" THEN "Info" ELSE "Connect"]

ErrorIsOf(e, k) ==
  IF k = "UNSUB" THEN e = "Failed to parse Unsubscribe message"
  ELSE IF k = "PUB" THEN e \in {"Failed to parse Publish message",
                                "Failed to parse Publish message - possibly not a 2-line message"}
  ELSE IF k = "MSG" THEN e \in {"Failed to parse delivered message",
                                "Failed to parse message - possibly not a 2-line message"}
  ELSE IF k = "SUB" THEN e = "Failed to parse Subscribe message"
  ELSE IF k = "-ERR" THEN e = "Failed to parse protocol message of type ERR"
  ELSE IF k = "INFO" THEN e = "Failed to parse server info JSON"
  ELSE IF k = "CONNECT" THEN LeadingIs(e, "Failed to parse connection info JSON: ")
  ELSE FALSE

Parsed == stage = "parsed"

FromCaller == value # NoValue

(***************************************************************************)
(* Properties.                                                             *)
(***************************************************************************)
\* A token field holds a token: it is not empty and has no space, tab, CR or LF.
IsToken(x) == x # "" /\ \A i \in 1..Len(x) : Ch(x, i) \notin {" ", "\t", "\r", "\n"}

IsOptToken(o) == o.some => IsToken(o.v)

\* The subject, reply-to and queue-group of a message are tokens.
TokenFieldsValid(m) ==
  /\ m.kind = "Subscribe" => IsToken(m.subscribe.subject) /\ IsOptToken(m.subscribe.queue_group)
  /\ m.kind = "Publish" => IsToken(m.publish.subject) /\ IsOptToken(m.publish.reply_to)
  /\ m.kind = "Message" => IsToken(m.message.subject) /\ IsOptToken(m.message.reply_to)

\* C1: round trip.  Parsing the rendering of any constructed message (here: any
\* whose subject, reply-to and queue-group are tokens) succeeds and returns a
\* message equal to the constructed one.
C1_RoundTrip ==
  (Parsed /\ FromCaller /\ TokenFieldsValid(value)) => (result.ok /\ result.val = value)

\* C2: whitespace tolerance.  A SUB, PUB, MSG or UNSUB line whose single-space
\* form parses to v also parses to v when each single space between fields is
\* replaced by any non-empty run of spaces and tabs.
C2_WhitespaceTolerance ==
  (Parsed /\ ~FromCaller /\ ProtocolMessage_from_str(single).ok)
    => result = ProtocolMessage_from_str(single)

\* The header line of a rendered text has single spaces only between its fields.
SingleSpaced(t) == ~Contains(HeaderLine(t), "  ") /\ ~Contains(HeaderLine(t), "\t")

\* C3: canonical output.  The rendering of every variant ends with CRLF and has
\* exactly one space between the fields of its header line, whether the message
\* was constructed (with token fields that are tokens) or came out of a parse.
C3_CanonicalOutput ==
  /\ (stage = "rendered" /\ TokenFieldsValid(value))
       => (EndsWith(text, CRLF) /\ (value.kind \notin {"Info", "Connect", "Error"} => SingleSpaced(text)))
  /\ stage = "rerendered"
       => (EndsWith(out, CRLF) /\ (result.val.kind \notin {"Info", "Connect", "Error"} => SingleSpaced(out)))

\* C4: dispatch.  A text that begins with none of the ten keywords (compared
\* exactly, so a keyword in another case or after leading white space does not
\* count) gets the unknown-message-type error; a text that begins with a keyword
\* gets a message of that keyword's kind or an error of that keyword's grammar.
C4_Dispatch ==
  Parsed =>
    LET kws == {k \in Keywords : LeadingIs(text, k)}
    IN  /\ kws = {} => (~result.ok /\ result.err = UnknownKind)
        /\ \A k \in kws : IF result.ok THEN result.val.kind = KindOf[k]
                          ELSE ErrorIsOf(result.err, k)

\* C4 witness: a keyword after leading white space was parsed and rejected as unknown.
C4_Witness ==
  Parsed /\ text = " SUB FOO 1\r\n" /\ ~result.ok /\ result.err = UnknownKind

\* C5: a token that is not all decimal digits, in a numeric position of a PUB,
\* SUB, UNSUB or MSG header line, makes the parse fail with a grammar error.
C5_NonDigitRejected ==
  LET toks == Tokens(HeaderLine(text))
  IN  (/\ Parsed
       /\ toks # <<>> /\ LeadingIs(text, toks[1])
       /\ \E p \in NumericPositions(toks) : ~AllDigits(toks[p]))
        => (~result.ok /\ result.err \in GrammarErrors \cup FramingErrors)

\* C6: framing.  A PUB or MSG text without CRLF fails with the framing error;
\* with a CRLF, the framer returns the text before the first CRLF as header and
\* the text between the first and the second CRLF (or the end) as payload,
\* neither holding a CRLF, and a successful parse carries that payload.
C6_Framing ==
  (Parsed /\ (LeadingIs(text, "PUB") \/ LeadingIs(text, "MSG"))) =>
    LET sp == split_header_and_payload(text)
    IN  IF CrlfAt(text) = {}
        THEN ~sp.some /\ ~result.ok /\ result.err \in FramingErrors
        ELSE /\ sp.some
             /\ sp.v.header = HeaderLine(text)
             /\ sp.v.payload = SecondSegment(text)
             /\ CrlfAt(sp.v.header) = {} /\ CrlfAt(sp.v.payload) = {}
             /\ LeadingIs(text, sp.v.header \o CRLF \o sp.v.payload)
             /\ result.ok => /\ result.val.kind = "Publish"
                                  => result.val.publish.payload = as_bytes(SecondSegment(text))
                             /\ result.val.kind = "Message"
                                  => result.val.message.payload = as_bytes(SecondSegment(text))
             /\ ~result.ok => result.err \notin FramingErrors

\* C6 witness: a PUB text without CRLF was parsed and got the framing error.
C6_Witness ==
  Parsed /\ text = "PUB FOO 5" /\ ~result.ok /\ result.err \in FramingErrors

\* The fields a PUB or MSG parse stored, whichever of the two kinds it is.
Stored(m) == IF m.kind = "Publish" THEN m.publish ELSE m.message

\* C7: the declared length is stored as parsed.  For a PUB or MSG text with a
\* payload segment whose header line parses, the parse succeeds, payload_size is
\* the number the header declares (its last token, when the line has the
\* pattern's token count and that token is a number) and payload is the bytes of
\* the second segment, whether or not the two agree.
C7_DeclaredLengthVerbatim ==
  LET h    == HeaderLine(text)
      toks == Tokens(h)
      hdr  == IF LeadingIs(text, "PUB") THEN parse_pub_header(h) ELSE parse_msg_header(h)
  IN  (/\ Parsed
       /\ LeadingIs(text, "PUB") \/ LeadingIs(text, "MSG")
       /\ CrlfAt(text) # {}
       /\ hdr.some)
        => /\ result.ok
           /\ Stored(result.val).payload_size = hdr.v.message_len
           /\ (NumericPositions(toks) # {} /\ AllDigits(toks[Len(toks)]))
                => Stored(result.val).payload_size = DecVal(toks[Len(toks)])
           /\ Stored(result.val).payload = as_bytes(SecondSegment(text))

\* C7 witness: a PUB declaring 3 bytes before a 5-byte payload was parsed as is.
C7_Witness ==
  /\ Parsed /\ text = "PUB FOO 3\r\nhello\r\n" /\ result.ok
  /\ result.val.publish.payload_size = 3
  /\ Len(result.val.publish.payload) = 5

\* The JSON text t has a member of key k.
HasKey(t, k) == Contains(t, "\"" \o k \o "\":")

\* The keys the JSON text t has are the non-optional ones of the schema and the
\* optional ones that info holds a value for.
KeysAsPresent(t, info, schema) ==
  \A k \in FieldNames(schema) :
    HasKey(t, k) <=> (k \notin OptionalKeys(schema) \/ info[k].some)

\* The optional fields of info are absent exactly for the keys the text t lacks.
AbsentAsOmitted(t, info, schema) ==
  \A k \in OptionalKeys(schema) : info[k].some <=> HasKey(t, k)

\* C8: optional-field omission.  A CONNECT or INFO body lacking any subset of
\* the optional keys parses, with exactly those fields absent; a rendering has
\* a key for every non-optional field and for every optional field that is
\* present, and for no absent one.
C8_OptionalOmission ==
  /\ (Parsed /\ text \in ConnectInputs /\ LeadingIs(text, "CONNECT "))
       => (result.ok /\ AbsentAsOmitted(text, result.val.connect, ConnectionInformation))
  /\ (Parsed /\ text \in InfoInputs /\ LeadingIs(text, "INFO "))
       => (result.ok /\ AbsentAsOmitted(text, result.val.info, ServerInformation))
  /\ (stage = "rendered" /\ value.kind = "Connect")
       => KeysAsPresent(text, value.connect, ConnectionInformation)
  /\ (stage = "rendered" /\ value.kind = "Info")
       => KeysAsPresent(text, value.info, ServerInformation)
  /\ (stage = "rerendered" /\ result.val.kind = "Connect")
       => KeysAsPresent(out, result.val.connect, ConnectionInformation)
  /\ (stage = "rerendered" /\ result.val.kind = "Info")
       => KeysAsPresent(out, result.val.info, ServerInformation)

\* C8 witness: a CONNECT with the required keys only was parsed and rendered
\* again, and the rendering has none of the optional keys.
C8_Witness ==
  /\ stage = "rerendered"
  /\ text = "CONNECT " \o BodyOf(ConnectionInformation, ConnectMember,
                                 RequiredKeys(ConnectionInformation))
  /\ \A k \in OptionalKeys(ConnectionInformation) : ~result.val.connect[k].some /\ ~HasKey(out, k)
  /\ \A k \in RequiredKeys(ConnectionInformation) : HasKey(out, k)

\* C9: the bridge.  What reaches the JSON decoder for a CONNECT or INFO text is
\* the text without its leading keyword, trimmed, every other character as it
\* was; and a keyword followed by a tab is accepted like one followed by a space.
C9_BridgeStripsKeywordOnly ==
  Parsed =>
    /\ (LeadingIs(text, "CONNECT ") \/ LeadingIs(text, "CONNECT\t"))
         => ConnectionInformation_body(text) = Trim(Drop(text, Len("CONNECT")))
    /\ (LeadingIs(text, "INFO ") \/ LeadingIs(text, "INFO\t"))
         => ServerInformation_body(text) = Trim(Drop(text, Len("INFO")))
    /\ (text \in ConnectInputs \cup InfoInputs) => result.ok

\* C10: when the JSON body of a CONNECT or INFO text fails to decode, the parse
\* returns an error, and the error's message carries the decoder's diagnostic.
C10_DecodeErrorCarriesDiagnostic ==
  Parsed =>
    /\ LeadingIs(text, "CONNECT")
         => LET d == serde_json_from_str(ConnectionInformation_body(text), ConnectionInformation)
            IN  ~d.ok => (~result.ok /\ Contains(result.err, d.err))
    /\ LeadingIs(text, "INFO")
         => LET d == serde_json_from_str(ServerInformation_body(text), ServerInformation)
            IN  ~d.ok => (~result.ok /\ Contains(result.err, d.err))

\* C11: purity.  No parse and no render of any message kind writes anything to
\* standard output: the output stream is as empty after the call as before it.
C11_Purity == stdout = <<>>

\* A decimal numeral as Display writes it: digits, no leading zero, a u64's size.
IsNumeral(tok) ==
  AllDigits(tok) /\ Len(tok) <= 9 /\ (Len(tok) > 1 => Ch(tok, 1) # "0")

\* t is "UNSUB s n": the keyword, an id and a maximum, single spaces, no CRLF.
IsUnsubText(t) ==
  LET toks == Tokens(t)
  IN  /\ Len(toks) = 3 /\ toks[1] = "UNSUB" /\ IsNumeral(toks[2]) /\ IsNumeral(toks[3])
      /\ t = toks[1] \o " " \o toks[2] \o " " \o toks[3]

\* C13: the UNSUB text round trip of tests::unsub_roundtrip.  Parsing "UNSUB s n"
\* (single spaces, no trailing CRLF) and rendering the result gives back exactly
\* the text that was parsed.
C13_UnsubTextRoundTrip ==
  (stage = "rerendered" /\ IsUnsubText(text)) => out = text

\* The kinds whose header line has an optional field.
WithOptional == {"Publish", "Subscribe", "Message", "Unsubscribe"}

\* The optional field of a message of such a kind.
OptionalOf(m) ==
  IF m.kind = "Publish" THEN m.publish.reply_to
  ELSE IF m.kind = "Subscribe" THEN m.subscribe.queue_group
  ELSE IF m.kind = "Message" THEN m.message.reply_to
  ELSE m.unsubscribe.max_messages

\* The number of tokens of a kind's header line when the optional field is absent.
TokensWithout(kind) == IF kind = "Message" THEN 4 ELSE IF kind = "Unsubscribe" THEN 2 ELSE 3

\* C14: positional disambiguation.  A parsed PUB, SUB, MSG or UNSUB has its
\* optional field present exactly when its header line has one token more than
\* the pattern without the field, and absent exactly when it has the pattern's
\* count; a present reply-to or queue-group is that token, whatever it holds.
C14_PositionalOptional ==
  (Parsed /\ result.ok /\ result.val.kind \in WithOptional) =>
    LET toks == Tokens(HeaderLine(text))
        o    == OptionalOf(result.val)
        n    == TokensWithout(result.val.kind)
    IN  /\ o.some <=> Len(toks) = n + 1
        /\ ~o.some <=> Len(toks) = n
        /\ (o.some /\ Len(toks) = n + 1 /\ result.val.kind # "Unsubscribe")
             => (o.v = toks[n] /\ o.v # "")

\* x is not empty and holds neither a space nor a tab.
NoSeparator(x) == x # "" /\ \A i \in 1..Len(x) : Ch(x, i) # " " /\ Ch(x, i) # "\t"

\* The token values of a message: its subject, its queue-group or reply-to when
\* present, its error text.
TokenValues(m) ==
  IF m.kind = "Subscribe"
  THEN {m.subscribe.subject} \cup (IF m.subscribe.queue_group.some THEN {m.subscribe.queue_group.v} ELSE {})
  ELSE IF m.kind = "Publish"
  THEN {m.publish.subject} \cup (IF m.publish.reply_to.some THEN {m.publish.reply_to.v} ELSE {})
  ELSE IF m.kind = "Message"
  THEN {m.message.subject} \cup (IF m.message.reply_to.some THEN {m.message.reply_to.v} ELSE {})
  ELSE IF m.kind = "Error" THEN {m.error}
  ELSE {}

\* C15: token invariant on parse output.  In every message a successful parse
\* returns, the subject, queue-group, reply-to and error text are non-empty and
\* hold neither a space nor a tab.
C15_TokenInvariant ==
  (Parsed /\ result.ok) => \A x \in TokenValues(result.val) : NoSeparator(x)

\* The number of spaces and tabs that line ends with.
TrailingBlanks(line) ==
  CHOOSE n \in 0..Len(line) :
    /\ \A k \in 1..n : ~is_token_char(Ch(line, Len(line) - k + 1))
    /\ n < Len(line) => is_token_char(Ch(line, Len(line) - n))

\* The text t without the spaces and tabs before the first token of its header
\* line and after the last one; what follows the header line is kept.
WithoutOuterRuns(t) ==
  LET h == HeaderLine(t)
  IN  SubSeq(h, RunLength(h, FALSE) + 1, Len(h) - TrailingBlanks(h)) \o Drop(t, Len(h))

\* C16: leading and trailing separator runs.  A SUB, PUB, MSG or UNSUB text whose
\* header line has a run of spaces or tabs before its first token or after its
\* last one parses to the value the text without those runs parses to.
C16_OuterRunsPermitted ==
  LET core == WithoutOuterRuns(text)
      want == ProtocolMessage_from_str(core)
  IN  (/\ Parsed
       /\ core # text
       /\ want.ok /\ want.val.kind \in WithOptional)
        => result = want

\* The positions of the quote character in t.
QuotesAt(t) == {i \in 1..Len(t) : Ch(t, i) = "'"}

\* t is -ERR 'x' for a text x without a quote, alone or before a CRLF.
IsErrText(t) ==
  /\ LeadingIs(t, "-ERR '")
  /\ Cardinality(QuotesAt(t)) = 2
  /\ \E q \in QuotesAt(t) : q > 6 /\ Drop(t, q) \in {"", CRLF}

\* The text between the two quotes of such a t.
Quoted(t) == SubSeq(t, 7, (CHOOSE q \in QuotesAt(t) : q > 6) - 1)

\* C17: the ERR grammar.  Parsing -ERR 'x', for any x without a quote (the empty
\* text and text with spaces included), gives Error(x); a text that begins with
\* -ERR but lacks the opening " '" or the closing quote fails with the ERR
\* grammar error.
C17_ErrGrammar ==
  (Parsed /\ LeadingIs(text, "-ERR")) =>
    /\ IsErrText(text) => result = Ok(Error(Quoted(text)))
    /\ (~LeadingIs(text, "-ERR '") \/ Cardinality(QuotesAt(text)) < 2)
         => (~result.ok /\ result.err = "Failed to parse protocol message of type ERR")

\* The most tokens the positional pattern of a header keyword allows, the
\* keyword included.
PatternMax ==
  [ PUB |-> 4, SUB |-> 4, UNSUB |-> 3, MSG |-> 5 ]

\* The keywords that stand alone on their line.
BareKeywords == {"PING", "PONG", "+OK"}

\* The header line has more tokens than its keyword's pattern allows.
TooManyTokens(t) ==
  LET toks == Tokens(HeaderLine(t))
  IN  /\ Len(toks) > 0
      /\ toks[1] \in DOMAIN PatternMax
      /\ Len(toks) > PatternMax[toks[1]]

\* A bare keyword is followed by something other than the line terminator.
BareKeywordFollowed(t) ==
  \E k \in BareKeywords : LeadingIs(t, k) /\ Drop(t, Len(k)) \notin {"", CRLF}

\* C18: a text whose header line has more tokens than the pattern of its
\* keyword allows, or whose bare keyword PING, PONG or +OK is followed by
\* anything but the line terminator, is refused: parsing it gives an error
\* and never a message built from a prefix of the line.
C18_WrongTokenCount ==
  (Parsed /\ (TooManyTokens(text) \/ BareKeywordFollowed(text))) => ~result.ok

====
